---- MODULE Spec2Model ----
(***************************************************************************)
(* A model of the smart-translator backend: the in-memory fixed-window     *)
(* rate limiter (middleware/rateLimit.ts), the retry loop of               *)
(* OpenAIService.translate, the JWT auth middleware, and the controllers   *)
(* that read and write User and Translation records.                       *)
(***************************************************************************)
EXTENDS Integers, Sequences, FiniteSets, TLC

\* ------------------------------------------------------------------------
\* Bounds of the model
\* ------------------------------------------------------------------------
\* last value of the clock Date.now() (one unit = one tick of the model)
MaxTime == 2
\* windowMs and maxRequests of the three limiters, scaled down
GeneralWindowMs == 1
GeneralMaxRequests == 2
TranslationWindowMs == 1
TranslationMaxRequests == 2
AuthMaxRequests == 1
\* responses of authRateLimit that may be pending at the same time
MaxInFlight == 2
\* longest completion text the upstream returns, in characters
MaxContentLen == 2
\* User documents ever created
MaxUsers == 2
\* Translation records the model creates
MaxTranslations == 1
\* upstream calls the model counts
MaxUpstreamCalls == 3
\* tags the validator of the Translation schema allows (10 in the code)
MaxTags == 3

\* ------------------------------------------------------------------------
\* Rate limiter: middleware/rateLimit.ts
\* ------------------------------------------------------------------------
Users == {"u1", "u2"}
IPs == {"ip1", "ip2"}
NoUser == "none"
NoIp == "noip"
NoEntry == [count |-> -1, resetTime |-> -1]

\* the limiters created at module scope that the model follows
Limiters == {"generalRateLimit", "rateLimit", "authRateLimit"}

\* a request as the limiter sees it: req.user?.userId and req.ip
Requests == [user : Users \cup {NoUser}, ip : IPs \cup {NoIp}]

Keys == Users \cup IPs \cup {"unknown", "anonymous"}

windowMs(l) ==
  CASE l = "generalRateLimit" -> GeneralWindowMs
    [] l = "rateLimit" -> TranslationWindowMs
    [] l = "authRateLimit" -> GeneralWindowMs

maxRequests(l) ==
  CASE l = "generalRateLimit" -> GeneralMaxRequests
    [] l = "rateLimit" -> TranslationMaxRequests
    [] l = "authRateLimit" -> AuthMaxRequests

skipSuccessfulRequests(l) == l = "authRateLimit"

\* default key generator: req.ip || "unknown"
defaultKeyGenerator(req) == IF req.ip # NoIp THEN req.ip ELSE "unknown"

\* key generator of rateLimit: req.user?.userId || req.ip || "anonymous"
KeyByIpOnly(req) == IF req.ip # NoIp THEN req.ip ELSE "anonymous"

userKeyGenerator(req) ==
  IF req.user # NoUser THEN req.user
  ELSE IF req.ip # NoIp THEN req.ip ELSE "anonymous"

keyGenerator(l, req) ==
  IF l = "rateLimit" THEN userKeyGenerator(req) ELSE defaultKeyGenerator(req)

\* !rateLimitStore[key] || rateLimitStore[key].resetTime < now
ExpiredNever(store, key, t) == store[key] = NoEntry

WindowExpired(store, key, t) ==
  store[key] = NoEntry \/ store[key].resetTime < t

\* "Initialize or get existing rate limit data"
OpenWindow(store, key, t, w) ==
  IF WindowExpired(store, key, t)
  THEN [store EXCEPT ![key] = [count |-> 0, resetTime |-> t + w]]
  ELSE store

\* rateLimitData.count >= maxRequests
LimitExceededOffByOne(entry, max) == entry.count > max

LimitExceeded(entry, max) == entry.count >= max

\* the status the limiter answers with (0: passed on to next())
LimiterStatus(store, key, t, w, max) ==
  IF LimitExceeded(OpenWindow(store, key, t, w)[key], max) THEN 429 ELSE 0

\* the store after the limiter has handled one request
LimiterStore(store, key, t, w, max) ==
  LET s1 == OpenWindow(store, key, t, w)
  IN IF LimitExceeded(s1[key], max) THEN s1
     ELSE [s1 EXCEPT ![key].count = @ + 1]

\* const rateLimitData = rateLimitStore[key]: the entry a limiter uses for a
\* key is the entry of the one module-level store, whichever limiter asks
LimiterEntry(store, l, key) == store[key]

Max(a, b) == IF a >= b THEN a ELSE b

VARIABLES
  now,             \* Date.now()
  rateLimitStore,  \* the module-level store, shared by every limiter
  pending,         \* res.end hooks of authRateLimit not yet run: the entry each captured
  passed,          \* history: requests each limiter without skipSuccessfulRequests
                   \* passed on, per key, in the key's current window
  failed,          \* history: requests authRateLimit passed on, per key, in the
                   \* key's current window, that ended with statusCode >= 400
  rlRes            \* the last request, the limiter's answer to it (0: next() was called)
                   \* and the count of the expired entry it replaced (-1: none)

rlVars == <<now, rateLimitStore, pending, passed, failed, rlRes>>

Slots == 1..MaxInFlight
Idle == [key |-> "idle", resetTime |-> -1]

RLInit ==
  /\ now = 0
  /\ rateLimitStore = [k \in Keys |-> NoEntry]
  /\ pending = [s \in Slots |-> Idle]
  /\ passed = [l \in Limiters |-> [k \in Keys |-> 0]]
  /\ failed = [k \in Keys |-> 0]
  /\ rlRes = [limiter |-> "none", req |-> [user |-> NoUser, ip |-> NoIp],
              status |-> 0, replaced |-> -1]

\* the history variables follow the window of the key
PassedAfter(l, key, t, status) ==
  LET fresh == WindowExpired(rateLimitStore, key, t)
      base == [m \in Limiters |->
                 [passed[m] EXCEPT ![key] = IF fresh THEN 0 ELSE @]]
  IN IF status = 429 \/ skipSuccessfulRequests(l) THEN base
     ELSE [base EXCEPT ![l][key] = @ + 1]

FreeSlot == CHOOSE s \in Slots : pending[s] = Idle /\ \A r \in Slots : r < s => pending[r] # Idle

\* one request handled by the middleware createRateLimiter returned
HandleRequest(l, req) ==
  LET key == keyGenerator(l, req)
      status == LimiterStatus(rateLimitStore, key, now, windowMs(l), maxRequests(l))
      store1 == LimiterStore(rateLimitStore, key, now, windowMs(l), maxRequests(l))
  IN /\ (skipSuccessfulRequests(l) /\ status = 0) => \E s \in Slots : pending[s] = Idle
     /\ rateLimitStore' = store1
     /\ rlRes' = [limiter |-> l, req |-> req, status |-> status,
                  replaced |-> IF rateLimitStore[key] # NoEntry
                                    /\ WindowExpired(rateLimitStore, key, now)
                               THEN rateLimitStore[key].count ELSE -1]
     /\ passed' = PassedAfter(l, key, now, status)
     /\ failed' = IF WindowExpired(rateLimitStore, key, now)
                  THEN [failed EXCEPT ![key] = 0] ELSE failed
     /\ pending' = IF skipSuccessfulRequests(l) /\ status = 0
                   THEN [pending EXCEPT ![FreeSlot] =
                           [key |-> key, resetTime |-> store1[key].resetTime]]
                   ELSE pending
     /\ UNCHANGED now

\* requests to the limiters keyed by client address
RLRequest ==
  \E l \in {"generalRateLimit", "authRateLimit"}, req \in Requests :
    req.user = NoUser /\ req.ip # "ip2" /\ HandleRequest(l, req)

\* requests to the translation limiter, with and without req.user
TLRequest ==
  \E req \in Requests : req.ip # NoIp /\ HandleRequest("rateLimit", req)

\* the object rateLimitData the closure of res.end holds is the entry of the
\* store as long as no later request and no cleanup has replaced or deleted
\* it (a new entry has a later resetTime)
CapturedByKey(store, c) == store[c.key] # NoEntry

Captured(store, c) ==
  store[c.key] # NoEntry /\ store[c.key].resetTime = c.resetTime

\* the patched res.end of a request authRateLimit passed on: statusCode < 400
\* gives the unit back to the entry the closure captured
EndResponse(s, ok) ==
  /\ pending[s] # Idle
  /\ LET c == pending[s]
         live == Captured(rateLimitStore, c)
     IN /\ rateLimitStore' =
             IF ok /\ live
             THEN [rateLimitStore EXCEPT ![c.key].count = Max(0, @ - 1)]
             ELSE rateLimitStore
        /\ failed' = IF ~ok /\ live
                     THEN [failed EXCEPT ![c.key] = @ + 1] ELSE failed
  /\ pending' = [pending EXCEPT ![s] = Idle]
  /\ UNCHANGED <<now, passed, rlRes>>

RLEnd == \E s \in Slots, ok \in BOOLEAN : EndResponse(s, ok)

\* requests to authRateLimit alone: login and register
AuthRequest ==
  \E req \in Requests :
    req.user = NoUser /\ req.ip # "ip2" /\ HandleRequest("authRateLimit", req)

\* the response of a request that succeeded: statusCode < 400
EndOk == \E s \in Slots : EndResponse(s, TRUE)

\* setInterval callback: delete the entries whose window is over
Cleanup ==
  /\ \E k \in Keys : rateLimitStore[k] # NoEntry /\ rateLimitStore[k].resetTime < now
  /\ rateLimitStore' = [k \in Keys |->
       IF rateLimitStore[k] # NoEntry /\ rateLimitStore[k].resetTime < now
       THEN NoEntry ELSE rateLimitStore[k]]
  /\ passed' = [l \in Limiters |-> [k \in Keys |->
       IF rateLimitStore[k] # NoEntry /\ rateLimitStore[k].resetTime < now
       THEN 0 ELSE passed[l][k]]]
  /\ failed' = [k \in Keys |->
       IF rateLimitStore[k] # NoEntry /\ rateLimitStore[k].resetTime < now
       THEN 0 ELSE failed[k]]
  /\ UNCHANGED <<now, pending, rlRes>>

Tick ==
  /\ now < MaxTime
  /\ now' = now + 1
  /\ UNCHANGED <<rateLimitStore, pending, passed, failed, rlRes>>

\* ------------------------------------------------------------------------
\* OpenAIService.translate: services/authService.ts (openaiService)
\* ------------------------------------------------------------------------
maxRetries == 3
retryDelay == 1000
MaxTextLength == 5000

\* the substrings of an error message the catch block looks for
Markers == {"rate_limit_exceeded", "insufficient_quota", "invalid_api_key",
            "model_not_found"}

\* strings are sequences of characters; " " is white space
Chars == {" ", "a"}
Strings == UNION {[1..n -> Chars] : n \in 0..MaxContentLen}

RECURSIVE TrimStart(_)
TrimStart(str) ==
  IF str # <<>> /\ Head(str) = " " THEN TrimStart(Tail(str)) ELSE str

RECURSIVE TrimEnd(_)
TrimEnd(str) ==
  IF str # <<>> /\ str[Len(str)] = " "
  THEN TrimEnd(SubSeq(str, 1, Len(str) - 1)) ELSE str

\* String.prototype.trim
Trim(str) == TrimEnd(TrimStart(str))

RECURSIVE Pow2(_)
Pow2(n) == IF n = 0 THEN 1 ELSE 2 * Pow2(n - 1)

\* what one call of openai.chat.completions.create ends with: a completion
\* with its content, or an error with the markers its message contains
Completions == [failed : {FALSE}, content : Strings, markers : {{}}]
Failures == [failed : {TRUE}, content : {<<>>}, markers : SUBSET Markers]
Outcomes == Completions \cup Failures

\* the message of the error the catch block sees for an outcome: the markers
\* of the upstream error, none for "No translation received from OpenAI"
ErrorMarkers(o) == IF o.failed THEN o.markers ELSE {}

\* the attempt succeeded: response.choices[0]?.message?.content?.trim() is truthy
Succeeded(o) == ~o.failed /\ Trim(o.content) # <<>>

\* delay before the retry that follows a rate-limit error
LinearForRateLimit(k) == retryDelay * k

RateLimitDelay(k) == retryDelay * Pow2(k - 1)

\* delay before the retry that follows any other retried error
OtherDelay(k) == retryDelay * k

\* texts handed to translate: their length and whether they are all white space
Texts == [length : {0, 1, MaxTextLength, MaxTextLength + 1}, blank : BOOLEAN]

NoResult == [kind |-> "none", value |-> <<>>, cause |-> {}]

VARIABLES
  oaPc,      \* position in translate: "idle", "call", "delay", "done"
  attempt,   \* the loop variable
  oaLog,     \* outcomes of the upstream calls made so far, in order
  oaWaits,   \* the delay taken after each attempt (0: none)
  oaResult   \* what translate returned or threw

oaVars == <<oaPc, attempt, oaLog, oaWaits, oaResult>>

OAInit ==
  /\ oaPc = "idle"
  /\ attempt = 0
  /\ oaLog = <<>>
  /\ oaWaits = <<>>
  /\ oaResult = NoResult

\* the errors the catch block rethrows at once, in the order it tests the
\* message: "OpenAI API quota exceeded. Please try again later.", "Invalid
\* OpenAI API key configuration.", "Translation model is currently
\* unavailable."; "none" when the message names none of them
SpecificErrorNoModel(m) ==
  IF "insufficient_quota" \in m THEN "quota_exceeded"
  ELSE IF "invalid_api_key" \in m THEN "invalid_api_key"
  ELSE "none"

SpecificError(m) ==
  IF "insufficient_quota" \in m THEN "quota_exceeded"
  ELSE IF "invalid_api_key" \in m THEN "invalid_api_key"
  ELSE IF "model_not_found" \in m THEN "model_unavailable"
  ELSE "none"

Thrown(kind, cause) == [kind |-> kind, value |-> <<>>, cause |-> cause]

\* translate is called: the two guards before the loop
OAStart(text) ==
  /\ oaPc = "idle"
  /\ IF text.length = 0 \/ text.blank
     THEN oaPc' = "done" /\ oaResult' = Thrown("empty_text", {}) /\ attempt' = 0
     ELSE IF text.length > MaxTextLength
     THEN oaPc' = "done" /\ oaResult' = Thrown("too_long", {}) /\ attempt' = 0
     ELSE oaPc' = "call" /\ oaResult' = NoResult /\ attempt' = 1
  /\ oaLog' = <<>>
  /\ oaWaits' = <<>>

\* one pass through the try block and, on failure, the catch block up to
\* the delay
OAAttempt(o) ==
  /\ oaPc = "call"
  /\ oaLog' = Append(oaLog, o)
  /\ IF Succeeded(o)
     THEN /\ oaPc' = "done"
          /\ oaResult' = [kind |-> "text", value |-> Trim(o.content), cause |-> {}]
          /\ oaWaits' = Append(oaWaits, 0)
     ELSE LET m == ErrorMarkers(o)
          IN IF "rate_limit_exceeded" \in m
             THEN /\ oaPc' = "delay"
                  /\ oaWaits' = Append(oaWaits, RateLimitDelay(attempt))
                  /\ oaResult' = oaResult
             ELSE IF SpecificError(m) # "none"
             THEN /\ oaPc' = "done"
                  /\ oaResult' = Thrown(SpecificError(m), m)
                  /\ oaWaits' = Append(oaWaits, 0)
             ELSE IF attempt = maxRetries
             THEN /\ oaPc' = "done"
                  /\ oaResult' = Thrown("failed_after_attempts", m)
                  /\ oaWaits' = Append(oaWaits, 0)
             ELSE /\ oaPc' = "delay"
                  /\ oaWaits' = Append(oaWaits, OtherDelay(attempt))
                  /\ oaResult' = oaResult
  /\ UNCHANGED attempt

\* the loop condition attempt <= this.maxRetries
LoopContinuesOneMore(a) == a <= maxRetries + 1

LoopContinues(a) == a <= maxRetries

\* the delay is over: attempt++, and the loop condition; after the loop
\* translate throws lastError
OADelayDone ==
  /\ oaPc = "delay"
  /\ attempt' = attempt + 1
  /\ IF LoopContinues(attempt + 1)
     THEN oaPc' = "call" /\ oaResult' = oaResult
     ELSE oaPc' = "done"
          /\ oaResult' = Thrown("last_error", ErrorMarkers(oaLog[Len(oaLog)]))
  /\ UNCHANGED <<oaLog, oaWaits>>

\* translate has settled; the service takes the next call
OAReturn ==
  /\ oaPc = "done"
  /\ oaPc' = "idle"
  /\ UNCHANGED <<attempt, oaLog, oaWaits, oaResult>>

\* ------------------------------------------------------------------------
\* User records: models/User.ts, controllers/AuthControllers.ts,
\* controllers/userControllers.ts, middleware/validation.ts
\* ------------------------------------------------------------------------
UserIds == 1..MaxUsers
NoVal == "-"

\* addresses as the client sends them; "bad" is not an address
EmailInputs == {"a@x", "A@x", "b@x", "bad"}
Usernames == {"n1", "n2"}
Passwords == {"pw1", "pw2"}

\* String.prototype.toLowerCase on the addresses of the model
Lower(e) == IF e = "A@x" THEN "a@x" ELSE e

\* isEmail() of the validators and the emailRegex of the controllers
IsEmail(e) == e \in {"a@x", "A@x", "b@x"}

\* bcrypt.hash and bcrypt.compare
Hash(p) == <<"bcrypt", p>>
CompareAny(p, h) == TRUE

Compare(p, h) == h = Hash(p)

AbsentUser == [exists |-> FALSE, email |-> NoVal, username |-> NoVal,
               passwordHash |-> <<>>, lastLoginAt |-> 0]

\* User.findOne({ $or: [{ email }, { username }] })
FindByEmailOrUsername(us, e, n) ==
  {i \in UserIds : us[i].exists /\ (us[i].email = e \/ us[i].username = n)}

\* User.findOne({ email })
FindByEmail(us, e) == {i \in UserIds : us[i].exists /\ us[i].email = e}

\* User.findOne({ username, _id: { $ne: userId } })
OthersWithUsername(us, id, n) ==
  {i \in UserIds \ {id} : us[i].exists /\ us[i].username = n}

\* User.findOne({ email, _id: { $ne: userId } })
OthersWithEmail(us, id, e) ==
  {i \in UserIds \ {id} : us[i].exists /\ us[i].email = e}

\* the unique indexes of userSchema on email and on username: a write that
\* would store a second document with the same value is refused (E11000)
NoUniqueIndex(us, id, doc) == TRUE

UniqueIndexAllows(us, id, doc) ==
  \A j \in UserIds \ {id} :
    us[j].exists => (us[j].email # doc.email /\ us[j].username # doc.username)

VARIABLES
  users,         \* the User collection, by _id
  nextUserId,    \* the next _id
  reqs,          \* requests between two of their awaits
  resp,          \* the last response sent
  jwtSecretSet   \* process.env.JWT_SECRET is set

dbVars == <<users, nextUserId, reqs, resp, jwtSecretSet>>

ReqSlots == 1..2
Free == [op |-> "free", pc |-> "free", uid |-> 0, email |-> NoVal,
         username |-> NoVal, password |-> NoVal]
NoResp == [op |-> "none", status |-> 0, message |-> ""]

DBInit ==
  /\ users = [i \in UserIds |-> AbsentUser]
  /\ nextUserId = 1
  /\ reqs = [s \in ReqSlots |-> Free]
  /\ resp = NoResp
  /\ jwtSecretSet = TRUE

Respond(op, status, message) ==
  resp' = [op |-> op, status |-> status, message |-> message]

\* a new request takes the first slot that is free
FirstFree(s) == reqs[s] = Free /\ \A t \in ReqSlots : t < s => reqs[t] # Free

\* ------------------------------------------------------------------------
\* Translation records and the requests to /api/translation:
\* routes/translation.ts, middleware/auth.ts, middleware/validation.ts,
\* controllers/TranslationControllers.ts, models/Translation.ts
\* ------------------------------------------------------------------------
TrIds == 1..MaxTranslations
AbsentTranslation == [exists |-> FALSE, userId |-> 0, isFavorite |-> FALSE,
                      tags |-> <<>>]

\* the Authorization header: none (or not "Bearer "), "Bearer " alone, a
\* token jwt.verify rejects, an expired token, a token this server signed for
\* a user
TokenKinds == {"none", "empty", "invalid", "expired", "valid"}
Tokens == [kind : TokenKinds \ {"valid"}, userId : {0}]
            \cup [kind : {"valid"}, userId : UserIds]

\* the body of POST /api/translation: the text and whether the tone is one
\* of the five
Bodies == [text : Texts, toneValid : BOOLEAN]
NoBody == [text |-> [length |-> 0, blank |-> TRUE], toneValid |-> FALSE]

\* the id of a user as the key of the translation limiter
UserKey(i) == IF i = 1 THEN "u1" ELSE "u2"

Proceed == [status |-> 0, message |-> ""]
Answer(status, message) == [status |-> status, message |-> message]

\* authMiddleware up to the answer of User.findById: what it answers, or
\* Proceed. TokenExpiredError is a JsonWebTokenError, so the first
\* instanceof test of the catch block takes an expired token too
AuthCheckNoLookup(secretSet, token, us) ==
  IF token.kind = "none"
  THEN Answer(401, "Access denied. No token provided.")
  ELSE IF token.kind = "valid" /\ secretSet THEN Proceed
  ELSE Answer(401, "Invalid token.")

AuthCheck(secretSet, token, us) ==
  IF token.kind = "none"
  THEN Answer(401, "Access denied. No token provided.")
  ELSE IF token.kind = "empty"
  THEN Answer(401, "Access denied. Invalid token format.")
  ELSE IF ~secretSet
  THEN Answer(500, "Internal server error")
  ELSE IF token.kind \in {"invalid", "expired"}
  THEN Answer(401, "Invalid token.")
  ELSE IF ~us[token.userId].exists
  THEN Answer(401, "Token is valid but user no longer exists.")
  ELSE Proceed

\* validateTranslation: text notEmpty and of length 1..5000, tone isIn
ValidateTranslation(body) ==
  /\ body.text.length >= 1
  /\ body.text.length <= MaxTextLength
  /\ body.toneValid

\* "Input validation" of TranslationController.translate
ControllerCheck(body) ==
  IF body.text.length = 0 \/ body.text.blank
  THEN Answer(400, "Translation text cannot be empty")
  ELSE IF body.text.length > MaxTextLength
  THEN Answer(400, "Translation text cannot exceed 5000 characters")
  ELSE IF ~body.toneValid
  THEN Answer(400, "Invalid tone type")
  ELSE Proceed

\* router.post("/", rateLimit, validateTranslation, controller): what the
\* chain answers before the upstream call, given the limiter's status
ValidationBeforeRateLimit(limiterStatus, body) ==
  IF ~ValidateTranslation(body)
  THEN Answer(400, "Validation failed")
  ELSE IF limiterStatus = 429
  THEN Answer(429, "Translation limit exceeded. You can perform up to 50 translations per hour.")
  ELSE ControllerCheck(body)

TranslateRouteAnswer(limiterStatus, body) ==
  IF limiterStatus = 429
  THEN Answer(429, "Translation limit exceeded. You can perform up to 50 translations per hour.")
  ELSE IF ~ValidateTranslation(body)
  THEN Answer(400, "Validation failed")
  ELSE ControllerCheck(body)

\* what OpenAIService.translate ends with, and after how many upstream
\* calls: the text, or one of the errors it throws; rateLimitText and
\* apiKeyText tell whether the message of the error contains "rate limit"
\* and "API key"
TranslateResults ==
  [kind : {"text"}, attempts : 1..maxRetries,
   rateLimitText : {FALSE}, apiKeyText : {FALSE}]
  \cup [kind : {"quota_exceeded", "model_unavailable"}, attempts : 1..maxRetries,
        rateLimitText : {FALSE}, apiKeyText : {FALSE}]
  \cup [kind : {"invalid_api_key"}, attempts : 1..maxRetries,
        rateLimitText : {FALSE}, apiKeyText : {TRUE}]
  \cup [kind : {"failed_after_attempts", "last_error"}, attempts : {maxRetries},
        rateLimitText : BOOLEAN, apiKeyText : BOOLEAN]

\* the catch block of TranslationController.translate
TranslateErrorAnswer(res) ==
  IF res.rateLimitText
  THEN Answer(429, "Too many requests, please try again later")
  ELSE IF res.apiKeyText
  THEN Answer(500, "Service temporarily unavailable, please try again later")
  ELSE Answer(500, "Translation failed, please try again")

\* the :id of a request: the _id of a Translation that exists or not, or a
\* string that is no ObjectId
BadId == 0
IdInputs == TrIds \cup {BadId}

\* Translation.findOne({ _id: id, userId }) finds a record
FindOneById(trs, uid, id) == trs[id].exists

FindOneOwned(trs, uid, id) == trs[id].exists /\ trs[id].userId = uid

\* translation.isFavorite = !translation.isFavorite
AlwaysFavorite(v) == TRUE

Toggled(v) == ~v

Min(a, b) == IF a <= b THEN a ELSE b

\* the entries of a newTags array: "", "a", " a" and "b"
TagInputs == {<<>>, <<"a">>, <<" ", "a">>, <<"b">>}

NewTagLists == UNION {[1..n -> TagInputs] : n \in 0..2}

\* Array.prototype.includes
Includes(list, x) == \E i \in DOMAIN list : list[i] = x

\* newTags.map((tag) => tag.trim()).filter((tag) => tag.length > 0 &&
\* !translation.tags.includes(tag)): every entry is tested against the tags
\* of the document as it was read
RECURSIVE FilteredTags(_, _)
FilteredTags(newTags, stored) ==
  IF newTags = <<>> THEN <<>>
  ELSE LET tag == Trim(Head(newTags))
           rest == FilteredTags(Tail(newTags), stored)
       IN IF Len(tag) > 0 /\ ~Includes(stored, tag) THEN <<tag>> \o rest ELSE rest

VARIABLES
  translations,   \* the Translation collection, by _id
  nextTrId,       \* the next _id
  history,        \* the TranslationHistory collection
  api,            \* requests to /api/translation between two of their awaits
  upstreamCalls,  \* history: calls of the upstream API made so far
  favLog,         \* history: per translation, the last values of isFavorite
                  \* stored (at most three)
  expectedFav,    \* history: per translation, isFavorite at creation negated once
                  \* for every toggleFavorite answered with success
  seqToggles      \* history: per translation, how many of the last toggles
                  \* ran without another toggle of it in flight (at most two)

trVars == <<translations, nextTrId, history, api, upstreamCalls, favLog,
            seqToggles, expectedFav>>

ApiSlots == 1..2
FreeApi == [op |-> "free", pc |-> "free", uid |-> 0, ip |-> NoIp,
            body |-> NoBody, tid |-> 0, read |-> FALSE, overlap |-> FALSE,
            ids |-> {}, tags |-> <<>>]

TRInit ==
  /\ translations = [t \in TrIds |-> AbsentTranslation]
  /\ nextTrId = 1
  /\ history = {}
  /\ api = [s \in ApiSlots |-> FreeApi]
  /\ upstreamCalls = 0
  /\ favLog = [t \in TrIds |-> <<>>]
  /\ seqToggles = [t \in TrIds |-> 0]
  /\ expectedFav = [t \in TrIds |-> FALSE]

\* the TranslationHistory documents of a (userId, translationId) pair: the
\* unique index of the schema allows one
HistoryOf(hs, uid, tid) == {h \in hs : h.userId = uid /\ h.translationId = tid}

HistoryEntry(uid, tid, t) == [userId |-> uid, translationId |-> tid, accessedAt |-> t]

FirstFreeApi(s) == api[s] = FreeApi /\ \A t \in ApiSlots : t < s => api[t] # FreeApi

\* POST /api/auth/register up to the answer of User.findOne:
\* validateRegistration, then the checks of AuthController.register
RegisterCheck(s, emailIn, username, password, confirm) ==
  LET email == Lower(emailIn)
  IN /\ FirstFree(s)
     /\ IF ~IsEmail(emailIn) \/ password # confirm
        THEN /\ Respond("register", 400, "Validation failed")
             /\ UNCHANGED reqs
        ELSE IF FindByEmailOrUsername(users, email, username) # {}
        THEN /\ Respond("register", 400,
                  IF \E i \in FindByEmailOrUsername(users, email, username) :
                       users[i].email = email
                  THEN "Email is already registered"
                  ELSE "Username is already taken")
             /\ UNCHANGED reqs
        ELSE /\ reqs' = [reqs EXCEPT ![s] =
                    [op |-> "register", pc |-> "save", uid |-> 0,
                     email |-> email, username |-> username,
                     password |-> password]]
             /\ UNCHANGED resp
     /\ UNCHANGED <<users, nextUserId, jwtSecretSet>>

\* await user.save() of register and the 201 answer with the token
RegisterSave(s) ==
  LET r == reqs[s]
      doc == [exists |-> TRUE, email |-> Lower(r.email), username |-> r.username,
              passwordHash |-> Hash(r.password), lastLoginAt |-> now]
  IN /\ r.op = "register" /\ r.pc = "save"
     /\ nextUserId <= MaxUsers
     /\ IF UniqueIndexAllows(users, nextUserId, doc)
        THEN /\ users' = [users EXCEPT ![nextUserId] = doc]
             /\ nextUserId' = nextUserId + 1
             /\ IF jwtSecretSet
                THEN Respond("register", 201, "Registration successful")
                ELSE Respond("register", 500, "Internal server error")
        ELSE /\ Respond("register", 500, "Internal server error")
             /\ UNCHANGED <<users, nextUserId>>
     /\ reqs' = [reqs EXCEPT ![s] = Free]
     /\ UNCHANGED jwtSecretSet

\* PUT /api/user/profile up to the answer of User.findById (the request has
\* passed authMiddleware with a token of user uid)
UpdateFind(s, uid, username, emailIn) ==
  /\ FirstFree(s)
  /\ uid < nextUserId
  /\ IF (username = NoVal /\ emailIn = NoVal)
        \/ (emailIn # NoVal /\ ~IsEmail(emailIn))
     THEN Respond("updateProfile", 400,
            IF username = NoVal /\ emailIn = NoVal
            THEN "Please provide fields to update" ELSE "Validation failed")
          /\ UNCHANGED reqs
     ELSE IF ~users[uid].exists
     THEN Respond("updateProfile", 404, "User not found") /\ UNCHANGED reqs
     ELSE /\ reqs' = [reqs EXCEPT ![s] =
                 [op |-> "updateProfile",
                  pc |-> IF username # NoVal THEN "username" ELSE "email",
                  uid |-> uid,
                  email |-> IF emailIn = NoVal THEN NoVal ELSE Lower(emailIn),
                  username |-> username, password |-> NoVal]]
          /\ UNCHANGED resp
  /\ UNCHANGED <<users, nextUserId, jwtSecretSet>>

\* "Check if username is already taken"
UpdateCheckUsername(s) ==
  LET r == reqs[s]
  IN /\ r.op = "updateProfile" /\ r.pc = "username"
     /\ IF OthersWithUsername(users, r.uid, r.username) # {}
        THEN /\ Respond("updateProfile", 400, "Username is already taken")
             /\ reqs' = [reqs EXCEPT ![s] = Free]
        ELSE /\ reqs' = [reqs EXCEPT ![s].pc =
                            IF r.email # NoVal THEN "email" ELSE "save"]
             /\ UNCHANGED resp
     /\ UNCHANGED <<users, nextUserId, jwtSecretSet>>

\* "Check if email is already taken"
UpdateCheckEmail(s) ==
  LET r == reqs[s]
  IN /\ r.op = "updateProfile" /\ r.pc = "email"
     /\ IF OthersWithEmail(users, r.uid, r.email) # {}
        THEN /\ Respond("updateProfile", 400, "Email is already taken")
             /\ reqs' = [reqs EXCEPT ![s] = Free]
        ELSE /\ reqs' = [reqs EXCEPT ![s].pc = "save"]
             /\ UNCHANGED resp
     /\ UNCHANGED <<users, nextUserId, jwtSecretSet>>

\* await user.save() of updateProfile: the modified paths are written to the
\* document with that _id, if it is still there and the indexes allow it
UpdateSave(s) ==
  LET r == reqs[s]
      old == users[r.uid]
      doc == [old EXCEPT
                !.username = IF r.username # NoVal THEN r.username ELSE @,
                !.email = IF r.email # NoVal THEN Lower(r.email) ELSE @]
  IN /\ r.op = "updateProfile" /\ r.pc = "save"
     /\ IF old.exists /\ UniqueIndexAllows(users, r.uid, doc)
        THEN /\ users' = [users EXCEPT ![r.uid] = doc]
             /\ Respond("updateProfile", 200, "Profile updated successfully")
        ELSE /\ Respond("updateProfile", 500, "Failed to update profile")
             /\ UNCHANGED users
     /\ reqs' = [reqs EXCEPT ![s] = Free]
     /\ UNCHANGED <<nextUserId, jwtSecretSet>>

\* what login answers when no user has the email (knownEmail FALSE) and
\* when the password does not match the hash of the user found
LoginFailureTelling(knownEmail) ==
  IF knownEmail THEN Answer(401, "Incorrect password")
  ELSE Answer(401, "User not found")

LoginFailure(knownEmail) == Answer(401, "Invalid email or password")

\* POST /api/auth/login up to bcrypt.compare: validateLogin, the check of
\* the fields, User.findOne({ email }) and the comparison with the hash
LoginFind(s, emailIn, password) ==
  LET email == Lower(emailIn)
      found == FindByEmail(users, email)
  IN /\ FirstFree(s)
     /\ IF ~IsEmail(emailIn) \/ password = NoVal
        THEN Respond("login", 400, "Validation failed") /\ UNCHANGED reqs
        ELSE IF found = {}
        THEN Respond("login", LoginFailure(FALSE).status,
                     LoginFailure(FALSE).message) /\ UNCHANGED reqs
        ELSE LET u == CHOOSE i \in found : TRUE
             IN IF ~Compare(password, users[u].passwordHash)
                THEN Respond("login", LoginFailure(TRUE).status,
                             LoginFailure(TRUE).message)
                     /\ UNCHANGED reqs
                ELSE /\ reqs' = [reqs EXCEPT ![s] =
                            [op |-> "login", pc |-> "save", uid |-> u,
                             email |-> NoVal, username |-> NoVal,
                             password |-> NoVal]]
                     /\ UNCHANGED resp
     /\ UNCHANGED <<users, nextUserId, jwtSecretSet>>

\* user.lastLoginAt = new Date(); await user.save(); then the token is
\* signed and sent
LoginSave(s) ==
  LET r == reqs[s]
  IN /\ r.op = "login" /\ r.pc = "save"
     /\ IF users[r.uid].exists
        THEN /\ users' = [users EXCEPT ![r.uid].lastLoginAt = now]
             /\ IF jwtSecretSet
                THEN Respond("login", 200, "Login successful")
                ELSE Respond("login", 500, "Internal server error")
        ELSE /\ Respond("login", 500, "Internal server error")
             /\ UNCHANGED users
     /\ reqs' = [reqs EXCEPT ![s] = Free]
     /\ UNCHANGED <<nextUserId, jwtSecretSet>>

\* DELETE /api/user/account up to bcrypt.compare
DeleteFind(s, uid, password, confirmed) ==
  /\ FirstFree(s)
  /\ uid < nextUserId
  /\ IF ~confirmed
     THEN Respond("deleteAccount", 400,
            "Please enter the correct confirmation text: DELETE")
          /\ UNCHANGED reqs
     ELSE IF ~users[uid].exists
     THEN Respond("deleteAccount", 404, "User not found") /\ UNCHANGED reqs
     ELSE IF ~Compare(password, users[uid].passwordHash)
     THEN Respond("deleteAccount", 401, "Incorrect password") /\ UNCHANGED reqs
     ELSE /\ reqs' = [reqs EXCEPT ![s] =
                 [op |-> "deleteAccount", pc |-> "delete", uid |-> uid,
                  email |-> NoVal, username |-> NoVal, password |-> NoVal]]
          /\ UNCHANGED resp
  /\ UNCHANGED <<users, nextUserId, jwtSecretSet>>

\* Translation.deleteMany, TranslationHistory.deleteMany and
\* User.findByIdAndDelete of deleteAccount, and the answer
DeleteUser(s) ==
  LET r == reqs[s]
  IN /\ r.op = "deleteAccount" /\ r.pc = "delete"
     /\ users' = [users EXCEPT ![r.uid] = AbsentUser]
     /\ translations' = [t \in TrIds |->
          IF translations[t].exists /\ translations[t].userId = r.uid
          THEN AbsentTranslation ELSE translations[t]]
     /\ history' = {h \in history : h.userId # r.uid}
     /\ UNCHANGED <<nextTrId, api, upstreamCalls, favLog, seqToggles, expectedFav>>
     /\ Respond("deleteAccount", 200, "Account deleted successfully")
     /\ reqs' = [reqs EXCEPT ![s] = Free]
     /\ UNCHANGED <<nextUserId, jwtSecretSet>>

\* a request to POST /api/translation arrives: authMiddleware up to the
\* answer of User.findById
ApiArrive(s, token, ip, body) ==
  LET a == AuthCheck(jwtSecretSet, token, users)
  IN /\ FirstFreeApi(s)
     /\ token.kind = "valid" => token.userId < nextUserId
     /\ IF a = Proceed
        THEN /\ api' = [api EXCEPT ![s] =
                  [FreeApi EXCEPT !.op = "translate", !.pc = "auth",
                                  !.uid = token.userId, !.ip = ip, !.body = body]]
             /\ UNCHANGED resp
        ELSE /\ Respond("translate", a.status, a.message)
             /\ UNCHANGED api
     /\ UNCHANGED <<users, nextUserId, reqs, jwtSecretSet>>
     /\ UNCHANGED <<translations, nextTrId, history, upstreamCalls, favLog,
                    seqToggles, expectedFav>>
     /\ UNCHANGED rlVars

\* User.findByIdAndUpdate(lastLoginAt) of authMiddleware has answered and
\* next() runs the rest of the chain up to the upstream call: rateLimit,
\* validateTranslation, the checks of the controller
ApiAuthNext(s) ==
  LET r == api[s]
      req == [user |-> UserKey(r.uid), ip |-> r.ip]
      key == keyGenerator("rateLimit", req)
      status == LimiterStatus(rateLimitStore, key, now,
                              windowMs("rateLimit"), maxRequests("rateLimit"))
      a == TranslateRouteAnswer(status, r.body)
  IN /\ r.op = "translate" /\ r.pc = "auth"
     /\ users' = IF users[r.uid].exists
                 THEN [users EXCEPT ![r.uid].lastLoginAt = now] ELSE users
     /\ HandleRequest("rateLimit", req)
     /\ IF a = Proceed
        THEN /\ api' = [api EXCEPT ![s].pc = "upstream", ![s].body = NoBody]
             /\ UNCHANGED resp
        ELSE /\ Respond("translate", a.status, a.message)
             /\ api' = [api EXCEPT ![s] = FreeApi]
     /\ UNCHANGED <<nextUserId, reqs, jwtSecretSet>>
     /\ UNCHANGED <<translations, nextTrId, history, upstreamCalls, favLog,
                    seqToggles, expectedFav>>

\* await openaiService.translate(text, tone) has settled
ApiUpstream(s, res) ==
  LET r == api[s]
  IN /\ r.op = "translate" /\ r.pc = "upstream"
     /\ upstreamCalls + res.attempts <= MaxUpstreamCalls
     /\ upstreamCalls' = upstreamCalls + res.attempts
     /\ IF res.kind = "text"
        THEN /\ api' = [api EXCEPT ![s].pc = "saveTranslation"]
             /\ UNCHANGED resp
        ELSE /\ Respond("translate", TranslateErrorAnswer(res).status,
                        TranslateErrorAnswer(res).message)
             /\ api' = [api EXCEPT ![s] = FreeApi]
     /\ UNCHANGED <<translations, nextTrId, history, favLog, seqToggles, expectedFav>>
     /\ UNCHANGED <<users, nextUserId, reqs, jwtSecretSet>>
     /\ UNCHANGED rlVars

\* await translation.save() of translate
ApiSaveTranslation(s) ==
  LET r == api[s]
  IN /\ r.op = "translate" /\ r.pc = "saveTranslation"
     /\ nextTrId <= MaxTranslations
     /\ translations' = [translations EXCEPT ![nextTrId] =
          [exists |-> TRUE, userId |-> r.uid, isFavorite |-> FALSE,
           tags |-> <<>>]]
     /\ favLog' = [favLog EXCEPT ![nextTrId] = <<FALSE>>]
     /\ nextTrId' = nextTrId + 1
     /\ api' = [api EXCEPT ![s].pc = "saveHistory", ![s].tid = nextTrId]
     /\ expectedFav' = [expectedFav EXCEPT ![nextTrId] = FALSE]
     /\ UNCHANGED <<history, upstreamCalls, seqToggles>>
     /\ UNCHANGED <<users, nextUserId, reqs, resp, jwtSecretSet>>
     /\ UNCHANGED rlVars

\* await history.save() of translate, and the answer
ApiSaveHistory(s) ==
  LET r == api[s]
  IN /\ r.op = "translate" /\ r.pc = "saveHistory"
     /\ IF HistoryOf(history, r.uid, r.tid) = {}
        THEN /\ history' = history \cup {HistoryEntry(r.uid, r.tid, now)}
             /\ Respond("translate", 200, "Translation successful")
        ELSE \* duplicate key error of the unique index, caught by the catch block
             /\ UNCHANGED history
             /\ Respond("translate", 500, "Translation failed, please try again")
     /\ api' = [api EXCEPT ![s] = FreeApi]
     /\ UNCHANGED <<translations, nextTrId, upstreamCalls, favLog, seqToggles, expectedFav>>
     /\ UNCHANGED <<users, nextUserId, reqs, jwtSecretSet>>
     /\ UNCHANGED rlVars

\* POST /api/translation/:id/favorite up to the answer of
\* Translation.findOne({ _id: id, userId }) (the request has passed
\* authMiddleware with a token of user uid)
ToggleFind(s, uid, tid) ==
  LET others == {t \in ApiSlots : api[t].op = "toggleFavorite" /\ api[t].tid = tid}
  IN /\ FirstFreeApi(s)
     /\ uid < nextUserId
     /\ IF tid = BadId
        THEN /\ Respond("toggleFavorite", 500, "Operation failed")
             /\ UNCHANGED api
        ELSE IF ~FindOneOwned(translations, uid, tid)
        THEN /\ Respond("toggleFavorite", 404, "Translation record not found")
             /\ UNCHANGED api
        ELSE /\ api' = [t \in ApiSlots |->
                  IF t = s
                  THEN [FreeApi EXCEPT !.op = "toggleFavorite", !.pc = "save",
                                       !.uid = uid, !.tid = tid,
                                       !.read = translations[tid].isFavorite,
                                       !.overlap = others # {}]
                  ELSE IF t \in others THEN [api[t] EXCEPT !.overlap = TRUE]
                  ELSE api[t]]
             /\ UNCHANGED resp
     /\ UNCHANGED <<translations, nextTrId, history, upstreamCalls, favLog,
                    seqToggles, expectedFav>>
     /\ UNCHANGED <<users, nextUserId, reqs, jwtSecretSet>>
     /\ UNCHANGED rlVars

\* translation.isFavorite = !translation.isFavorite; await translation.save()
\* and the answer
ToggleSave(s) ==
  LET r == api[s]
      v == Toggled(r.read)
      log == Append(favLog[r.tid], v)
  IN /\ r.op = "toggleFavorite" /\ r.pc = "save"
     /\ IF translations[r.tid].exists
        THEN /\ translations' = [translations EXCEPT ![r.tid].isFavorite = v]
             /\ favLog' = [favLog EXCEPT ![r.tid] =
                  IF Len(log) > 3 THEN Tail(log) ELSE log]
             /\ expectedFav' = [expectedFav EXCEPT ![r.tid] = ~@]
             /\ seqToggles' = [seqToggles EXCEPT ![r.tid] =
                  IF r.overlap THEN 0 ELSE Min(2, @ + 1)]
             /\ Respond("toggleFavorite", 200,
                  IF v THEN "Added to favorites" ELSE "Removed from favorites")
        ELSE /\ Respond("toggleFavorite", 500, "Operation failed")
             /\ UNCHANGED <<translations, favLog, seqToggles, expectedFav>>
     /\ api' = [api EXCEPT ![s] = FreeApi]
     /\ UNCHANGED <<nextTrId, history, upstreamCalls>>
     /\ UNCHANGED <<users, nextUserId, reqs, jwtSecretSet>>
     /\ UNCHANGED rlVars

\* GET /api/translation/:id up to the answer of Translation.findOne (the
\* request has passed authMiddleware with a token of user uid); a string
\* that is no ObjectId makes the query throw a CastError
GetFind(s, uid, id) ==
  /\ FirstFreeApi(s)
  /\ uid < nextUserId
  /\ IF id = BadId
     THEN /\ Respond("getTranslation", 500, "Failed to get translation record")
          /\ UNCHANGED api
     ELSE IF ~FindOneOwned(translations, uid, id)
     THEN /\ Respond("getTranslation", 404, "Translation record not found")
          /\ UNCHANGED api
     ELSE /\ api' = [api EXCEPT ![s] =
               [FreeApi EXCEPT !.op = "getTranslation", !.pc = "upsert",
                               !.uid = uid, !.tid = id]]
          /\ UNCHANGED resp
  /\ UNCHANGED <<translations, nextTrId, history, upstreamCalls, favLog,
                 seqToggles, expectedFav>>
  /\ UNCHANGED <<users, nextUserId, reqs, jwtSecretSet>>
  /\ UNCHANGED rlVars

\* TranslationHistory.findOneAndUpdate({ userId, translationId },
\* { accessedAt }, { upsert: true }) of getTranslation, and the answer
GetUpsert(s) ==
  LET r == api[s]
  IN /\ r.op = "getTranslation" /\ r.pc = "upsert"
     /\ history' = (history \ HistoryOf(history, r.uid, r.tid))
                      \cup {HistoryEntry(r.uid, r.tid, now)}
     /\ Respond("getTranslation", 200, "")
     /\ api' = [api EXCEPT ![s] = FreeApi]
     /\ UNCHANGED <<translations, nextTrId, upstreamCalls, favLog, seqToggles, expectedFav>>
     /\ UNCHANGED <<users, nextUserId, reqs, jwtSecretSet>>
     /\ UNCHANGED rlVars

\* TranslationService.getTranslationById up to the answer of
\* Translation.findOne({ _id, userId }); new Types.ObjectId(id) throws for a
\* string that is no ObjectId
SvcGetFind(s, uid, id) ==
  /\ FirstFreeApi(s)
  /\ uid < nextUserId
  /\ IF id = BadId
     THEN /\ Respond("getTranslationById", 500, "Failed to fetch translation")
          /\ UNCHANGED api
     ELSE IF ~FindOneOwned(translations, uid, id)
     THEN /\ Respond("getTranslationById", 0, "null")
          /\ UNCHANGED api
     ELSE /\ api' = [api EXCEPT ![s] =
               [FreeApi EXCEPT !.op = "getTranslationById", !.pc = "record",
                               !.uid = uid, !.tid = id]]
          /\ UNCHANGED resp
  /\ UNCHANGED <<translations, nextTrId, history, upstreamCalls, favLog,
                 seqToggles, expectedFav>>
  /\ UNCHANGED <<users, nextUserId, reqs, jwtSecretSet>>
  /\ UNCHANGED rlVars

\* recordTranslationHistory: new TranslationHistory({ userId, translationId,
\* accessedAt }).save(); the duplicate key error of the unique index is
\* caught and logged; then getTranslationById returns the translation
SvcRecordHistory(s) ==
  LET r == api[s]
  IN /\ r.op = "getTranslationById" /\ r.pc = "record"
     /\ history' = IF HistoryOf(history, r.uid, r.tid) = {}
                   THEN history \cup {HistoryEntry(r.uid, r.tid, now)}
                   ELSE history
     /\ Respond("getTranslationById", 200, "")
     /\ api' = [api EXCEPT ![s] = FreeApi]
     /\ UNCHANGED <<translations, nextTrId, upstreamCalls, favLog, seqToggles, expectedFav>>
     /\ UNCHANGED <<users, nextUserId, reqs, jwtSecretSet>>
     /\ UNCHANGED rlVars

\* TranslationService.addTagsToTranslation up to the answer of
\* Translation.findOne and the filter of newTags; without a new tag the
\* translation is returned as it is
AddTagsFind(s, uid, id, newTags) ==
  /\ FirstFreeApi(s)
  /\ uid < nextUserId
  /\ IF id = BadId \/ ~FindOneOwned(translations, uid, id)
     THEN /\ Respond("addTagsToTranslation", 500, "Failed to add tags")
          /\ UNCHANGED api
     ELSE LET filtered == FilteredTags(newTags, translations[id].tags)
          IN IF filtered = <<>>
             THEN /\ Respond("addTagsToTranslation", 200, "")
                  /\ UNCHANGED api
             ELSE /\ api' = [api EXCEPT ![s] =
                       [FreeApi EXCEPT !.op = "addTagsToTranslation", !.pc = "save",
                                       !.uid = uid, !.tid = id,
                                       !.read = Len(translations[id].tags) + Len(filtered) <= MaxTags,
                                       !.tags = filtered]]
                  /\ UNCHANGED resp
  /\ UNCHANGED <<translations, nextTrId, history, upstreamCalls, favLog,
                 seqToggles, expectedFav>>
  /\ UNCHANGED <<users, nextUserId, reqs, jwtSecretSet>>
  /\ UNCHANGED rlVars

\* translation.tags.push(...filteredTags); await translation.save(): the
\* validator tests the tags of the document in memory (read is its result),
\* the update appends the pushed tags to the stored array
AddTagsSave(s) ==
  LET r == api[s]
  IN /\ r.op = "addTagsToTranslation" /\ r.pc = "save"
     /\ IF r.read /\ translations[r.tid].exists
        THEN /\ translations' = [translations EXCEPT ![r.tid].tags = @ \o r.tags]
             /\ Respond("addTagsToTranslation", 200, "")
        ELSE /\ Respond("addTagsToTranslation", 500, "Failed to add tags")
             /\ UNCHANGED translations
     /\ api' = [api EXCEPT ![s] = FreeApi]
     /\ UNCHANGED <<nextTrId, history, upstreamCalls, favLog, seqToggles, expectedFav>>
     /\ UNCHANGED <<users, nextUserId, reqs, jwtSecretSet>>
     /\ UNCHANGED rlVars

\* DELETE /api/translation/:id up to the answer of Translation.findOne
DeleteFindTranslation(s, uid, id) ==
  /\ FirstFreeApi(s)
  /\ uid < nextUserId
  /\ IF id = BadId
     THEN /\ Respond("deleteTranslation", 500, "Delete failed")
          /\ UNCHANGED api
     ELSE IF ~FindOneOwned(translations, uid, id)
     THEN /\ Respond("deleteTranslation", 404, "Translation record not found")
          /\ UNCHANGED api
     ELSE /\ api' = [api EXCEPT ![s] =
               [FreeApi EXCEPT !.op = "deleteTranslation", !.pc = "delete",
                               !.uid = uid, !.tid = id]]
          /\ UNCHANGED resp
  /\ UNCHANGED <<translations, nextTrId, history, upstreamCalls, favLog,
                 seqToggles, expectedFav>>
  /\ UNCHANGED <<users, nextUserId, reqs, jwtSecretSet>>
  /\ UNCHANGED rlVars

\* await Translation.findByIdAndDelete(id) of deleteTranslation
DeleteTranslationRecord(s) ==
  LET r == api[s]
  IN /\ r.op = "deleteTranslation" /\ r.pc = "delete"
     /\ translations' = [translations EXCEPT ![r.tid] = AbsentTranslation]
     /\ api' = [api EXCEPT ![s].pc = "history"]
     /\ UNCHANGED <<nextTrId, history, upstreamCalls, favLog, seqToggles, expectedFav>>
     /\ UNCHANGED <<users, nextUserId, reqs, resp, jwtSecretSet>>
     /\ UNCHANGED rlVars

\* await TranslationHistory.deleteMany({ translationId: id }) of
\* deleteTranslation, and the answer
DeleteTranslationHistory(s) ==
  LET r == api[s]
  IN /\ r.op = "deleteTranslation" /\ r.pc = "history"
     /\ history' = {h \in history : h.translationId # r.tid}
     /\ Respond("deleteTranslation", 200, "Delete successful")
     /\ api' = [api EXCEPT ![s] = FreeApi]
     /\ UNCHANGED <<translations, nextTrId, upstreamCalls, favLog, seqToggles, expectedFav>>
     /\ UNCHANGED <<users, nextUserId, reqs, jwtSecretSet>>
     /\ UNCHANGED rlVars

\* the ids array of a batch delete: ids of Translation records, with
\* repetitions
IdArrays == UNION {[1..n -> IdInputs] : n \in 0..2}
Range(f) == {f[i] : i \in DOMAIN f}

\* deleteTranslations up to the answer of Translation.find({ _id: { $in:
\* ids }, userId }): the number of records found must be ids.length; a
\* string that is no ObjectId makes the query throw a CastError
BatchFind(s, uid, ids) ==
  LET found == {t \in Range(ids) \ {BadId} : FindOneOwned(translations, uid, t)}
  IN /\ FirstFreeApi(s)
     /\ uid < nextUserId
     /\ IF Len(ids) = 0
        THEN /\ Respond("deleteTranslations", 400,
                        "Please select translation records to delete")
             /\ UNCHANGED api
        ELSE IF BadId \in Range(ids)
        THEN /\ Respond("deleteTranslations", 500, "Delete failed")
             /\ UNCHANGED api
        ELSE IF Cardinality(found) # Len(ids)
        THEN /\ Respond("deleteTranslations", 400,
                        "Some records do not exist or you don't have permission to delete them")
             /\ UNCHANGED api
        ELSE /\ api' = [api EXCEPT ![s] =
                  [FreeApi EXCEPT !.op = "deleteTranslations", !.pc = "delete",
                                  !.uid = uid, !.ids = Range(ids)]]
             /\ UNCHANGED resp
     /\ UNCHANGED <<translations, nextTrId, history, upstreamCalls, favLog,
                    seqToggles, expectedFav>>
     /\ UNCHANGED <<users, nextUserId, reqs, jwtSecretSet>>
     /\ UNCHANGED rlVars

\* await Translation.deleteMany({ _id: { $in: ids }, userId })
BatchDeleteRecords(s) ==
  LET r == api[s]
  IN /\ r.op = "deleteTranslations" /\ r.pc = "delete"
     /\ translations' = [t \in TrIds |->
          IF t \in r.ids /\ FindOneOwned(translations, r.uid, t)
          THEN AbsentTranslation ELSE translations[t]]
     /\ api' = [api EXCEPT ![s].pc = "history"]
     /\ UNCHANGED <<nextTrId, history, upstreamCalls, favLog, seqToggles, expectedFav>>
     /\ UNCHANGED <<users, nextUserId, reqs, resp, jwtSecretSet>>
     /\ UNCHANGED rlVars

\* await TranslationHistory.deleteMany({ translationId: { $in: ids } }),
\* and the answer
BatchDeleteHistory(s) ==
  LET r == api[s]
  IN /\ r.op = "deleteTranslations" /\ r.pc = "history"
     /\ history' = {h \in history : h.translationId \notin r.ids}
     /\ Respond("deleteTranslations", 200, "Successfully deleted records")
     /\ api' = [api EXCEPT ![s] = FreeApi]
     /\ UNCHANGED <<translations, nextTrId, upstreamCalls, favLog, seqToggles, expectedFav>>
     /\ UNCHANGED <<users, nextUserId, reqs, jwtSecretSet>>
     /\ UNCHANGED rlVars

ClockTick == now < MaxTime /\ now' = now + 1

\* the texts the catch block of TranslationController.translate looks for in
\* the message of the error
MessageTexts == {"rate limit", "API key"}

\* which of these texts the message of the error translate threw contains:
\* the errors translate makes itself have fixed messages; 'Translation failed
\* after 3 attempts: ' + lastError.message and the rethrown lastError carry
\* the message of the last failure, upstream's (with the texts given) or
\* "No translation received from OpenAI"
ThrownTexts(result, last, texts) ==
  IF result.kind = "invalid_api_key" THEN {"API key"}
  ELSE IF result.kind \in {"failed_after_attempts", "last_error"}
  THEN (IF last.failed THEN texts ELSE {})
  ELSE {}

\* texts with which the controller calls openaiService.translate: it has
\* answered 400 to the empty ones and to those over 5000 characters
CheckedTexts == {t \in Texts : t.length > 0 /\ ~t.blank /\ t.length <= MaxTextLength}

TranslateCall ==
  \E text \in CheckedTexts : OAStart(text)

\* openaiService.translate returned a text: the controller goes on and
\* stores the records
TranslateReturned ==
  /\ oaResult.kind = "text"
  /\ OAReturn

\* openaiService.translate threw: the catch block of the controller answers;
\* texts are the texts the message of the last upstream error contains
TranslateCatch(texts) ==
  /\ oaPc = "done"
  /\ oaResult.kind \notin {"text", "none"}
  /\ LET t == ThrownTexts(oaResult, oaLog[Len(oaLog)], texts)
         a == TranslateErrorAnswer([rateLimitText |-> "rate limit" \in t,
                                    apiKeyText |-> "API key" \in t])
     IN Respond("translate", a.status, a.message)
  /\ oaPc' = "idle"
  /\ UNCHANGED <<attempt, oaLog, oaWaits, oaResult>>
  /\ UNCHANGED <<users, nextUserId, reqs, jwtSecretSet>>

\* ------------------------------------------------------------------------
\* Startup: utils/config.ts and startServer of index.ts
\* ------------------------------------------------------------------------
\* process.env.PORT after parseInt(process.env.PORT || "8000", 10): a number,
\* or NaN for a text that starts with no digit
Ports == {[nan |-> FALSE, value |-> 0], [nan |-> FALSE, value |-> 8000],
          [nan |-> FALSE, value |-> 65536], [nan |-> TRUE, value |-> 0]}

\* the environment: each required variable is missing (or empty), set to a
\* value the format check refuses, or good; the secret may be shorter than 32
\* characters
Environments ==
  [mongoUri : {"missing", "malformed", "ok"},
   jwtSecret : {"missing", "short", "ok"},
   openaiKey : {"missing", "malformed", "ok"},
   port : Ports,
   temperatureOk : BOOLEAN,
   maxTokensOk : BOOLEAN]

GoodEnv == [mongoUri |-> "ok", jwtSecret |-> "ok", openaiKey |-> "ok",
            port |-> [nan |-> FALSE, value |-> 8000],
            temperatureOk |-> TRUE, maxTokensOk |-> TRUE]

\* requiredVars.filter((varName) => !process.env[varName])
MissingVars(e) ==
  {v \in {"MONGODB_URI", "JWT_SECRET", "OPENAI_API_KEY"} :
     \/ v = "MONGODB_URI" /\ e.mongoUri = "missing"
     \/ v = "JWT_SECRET" /\ e.jwtSecret = "missing"
     \/ v = "OPENAI_API_KEY" /\ e.openaiKey = "missing"}

\* config.server.port < 1 || config.server.port > 65535: both comparisons
\* are false for NaN
PortRefused(p) == ~p.nan /\ (p.value < 1 \/ p.value > 65535)

\* the error validateConfig throws for an environment, "" when it returns;
\* a secret shorter than 32 characters is logged with logger.warn only
ConfigError(e) ==
  IF PortRefused(e.port)
  THEN "Invalid port number. Must be between 1 and 65535."
  ELSE IF e.mongoUri = "malformed" THEN "Invalid MongoDB URI format."
  ELSE IF e.openaiKey = "malformed" THEN "Invalid OpenAI API key format."
  ELSE IF ~e.temperatureOk THEN "OpenAI temperature must be between 0 and 2."
  ELSE IF ~e.maxTokensOk THEN "OpenAI max tokens must be between 1 and 4096."
  ELSE ""

VARIABLES
  env,         \* process.env as the process was started with
  bootPc,      \* "load", "config", "start", "serving", "exited"
  bootReport   \* the error the process reported before it exited

bootVars == <<env, bootPc, bootReport>>

\* the process starts with some environment
BootInit ==
  /\ env \in Environments
  /\ bootPc = "load"
  /\ bootReport = ""

\* the server of the other specifications: started with a good environment
Serving ==
  /\ env = GoodEnv
  /\ bootPc = "serving"
  /\ bootReport = ""

\* validateEnvVars(), run when utils/config is loaded
ValidateEnvVars ==
  /\ bootPc = "load"
  /\ IF MissingVars(env) # {}
     THEN /\ bootPc' = "exited"
          /\ bootReport' = "Missing required environment variables"
     ELSE /\ bootPc' = "config"
          /\ UNCHANGED bootReport
  /\ UNCHANGED env

\* validateConfig(), run when utils/config is loaded: the error it throws is
\* not caught, the process reports it and exits
ValidateConfig ==
  /\ bootPc = "config"
  /\ IF ConfigError(env) # ""
     THEN /\ bootPc' = "exited"
          /\ bootReport' = ConfigError(env)
     ELSE /\ bootPc' = "start"
          /\ UNCHANGED bootReport
  /\ UNCHANGED env

\* startServer(): connectDatabase() and app.listen(PORT); a failed
\* connection and a port listen refuses (NaN) end in the catch block
StartServer(connected) ==
  /\ bootPc = "start"
  /\ IF ~connected \/ env.port.nan
     THEN /\ bootPc' = "exited"
          /\ bootReport' = "Failed to start server"
     ELSE /\ bootPc' = "serving"
          /\ UNCHANGED bootReport
  /\ UNCHANGED env

vars == <<rlVars, oaVars, dbVars, trVars, bootVars>>

rlRest == <<rateLimitStore, pending, passed, failed, rlRes>>

UsersNext ==
  \/ \E s \in ReqSlots, e \in EmailInputs, n \in Usernames :
       RegisterCheck(s, e, n, "pw1", "pw1") /\ UNCHANGED <<rlVars, oaVars, trVars, bootVars>>
  \/ \E s \in ReqSlots : RegisterSave(s) /\ UNCHANGED <<rlVars, oaVars, trVars, bootVars>>
  \/ \E s \in ReqSlots, u \in UserIds, n \in Usernames \cup {NoVal},
        e \in EmailInputs \cup {NoVal} :
       UpdateFind(s, u, n, e) /\ UNCHANGED <<rlVars, oaVars, trVars, bootVars>>
  \/ \E s \in ReqSlots : UpdateCheckUsername(s) /\ UNCHANGED <<rlVars, oaVars, trVars, bootVars>>
  \/ \E s \in ReqSlots : UpdateCheckEmail(s) /\ UNCHANGED <<rlVars, oaVars, trVars, bootVars>>
  \/ \E s \in ReqSlots : UpdateSave(s) /\ UNCHANGED <<rlVars, oaVars, trVars, bootVars>>
  \/ \E s \in ReqSlots, u \in UserIds, c \in BOOLEAN :
       DeleteFind(s, u, "pw1", c) /\ UNCHANGED <<rlVars, oaVars, trVars, bootVars>>
  \/ \E s \in ReqSlots : DeleteUser(s) /\ UNCHANGED <<rlVars, oaVars, bootVars>>

LoginNext ==
  \/ \E s \in ReqSlots, e \in EmailInputs, p, c \in Passwords :
       RegisterCheck(s, e, "n1", p, c) /\ UNCHANGED <<rlVars, oaVars, trVars, bootVars>>
  \/ \E s \in ReqSlots : RegisterSave(s) /\ UNCHANGED <<rlVars, oaVars, trVars, bootVars>>
  \/ \E s \in ReqSlots, e \in EmailInputs, p \in Passwords \cup {NoVal} :
       LoginFind(s, e, p) /\ UNCHANGED <<rlVars, oaVars, trVars, bootVars>>
  \/ \E s \in ReqSlots : LoginSave(s) /\ UNCHANGED <<rlVars, oaVars, trVars, bootVars>>
  \/ \E s \in ReqSlots, u \in UserIds, p \in Passwords, c \in BOOLEAN :
       DeleteFind(s, u, p, c) /\ UNCHANGED <<rlVars, oaVars, trVars, bootVars>>
  \/ \E s \in ReqSlots : DeleteUser(s) /\ UNCHANGED <<rlVars, oaVars, bootVars>>
  \/ ClockTick /\ UNCHANGED <<rlRest, oaVars, dbVars, trVars, bootVars>>

\* the server has started with a good environment: empty store, no call of
\* the upstream API, no document stored
ServerInit == RLInit /\ OAInit /\ DBInit /\ TRInit /\ Serving

SpecLogin == ServerInit /\ [][LoginNext]_vars

SpecUsers == ServerInit /\ [][UsersNext]_vars

OANext ==
  \/ \E text \in Texts : OAStart(text) /\ UNCHANGED <<rlVars, dbVars, trVars, bootVars>>
  \/ \E o \in Outcomes : OAAttempt(o) /\ UNCHANGED <<rlVars, dbVars, trVars, bootVars>>
  \/ OADelayDone /\ UNCHANGED <<rlVars, dbVars, trVars, bootVars>>
  \/ OAReturn /\ UNCHANGED <<rlVars, dbVars, trVars, bootVars>>

SpecOA == ServerInit /\ [][OANext]_vars

RLNext ==
  \/ RLRequest /\ UNCHANGED <<oaVars, dbVars, trVars, bootVars>>
  \/ RLEnd /\ UNCHANGED <<oaVars, dbVars, trVars, bootVars>>
  \/ Cleanup /\ UNCHANGED <<oaVars, dbVars, trVars, bootVars>>
  \/ Tick /\ UNCHANGED <<oaVars, dbVars, trVars, bootVars>>

SpecRL == ServerInit /\ [][RLNext]_vars

\* the call of openaiService.translate by the controller and its catch block
CatchNext ==
  \/ TranslateCall /\ UNCHANGED <<rlVars, dbVars, trVars, bootVars>>
  \/ \E o \in Outcomes : OAAttempt(o) /\ UNCHANGED <<rlVars, dbVars, trVars, bootVars>>
  \/ OADelayDone /\ UNCHANGED <<rlVars, dbVars, trVars, bootVars>>
  \/ TranslateReturned /\ UNCHANGED <<rlVars, dbVars, trVars, bootVars>>
  \/ \E texts \in SUBSET MessageTexts :
       TranslateCatch(texts) /\ UNCHANGED <<rlVars, trVars, bootVars>>

SpecCatch == ServerInit /\ [][CatchNext]_vars

\* authRateLimit alone, with responses of every status
AuthNext ==
  \/ AuthRequest /\ UNCHANGED <<oaVars, dbVars, trVars, bootVars>>
  \/ RLEnd /\ UNCHANGED <<oaVars, dbVars, trVars, bootVars>>
  \/ Cleanup /\ UNCHANGED <<oaVars, dbVars, trVars, bootVars>>
  \/ Tick /\ UNCHANGED <<oaVars, dbVars, trVars, bootVars>>

SpecAuth == ServerInit /\ [][AuthNext]_vars

\* authRateLimit alone, every request it passes on succeeds
AuthOkNext ==
  \/ AuthRequest /\ UNCHANGED <<oaVars, dbVars, trVars, bootVars>>
  \/ EndOk /\ UNCHANGED <<oaVars, dbVars, trVars, bootVars>>
  \/ Cleanup /\ UNCHANGED <<oaVars, dbVars, trVars, bootVars>>
  \/ Tick /\ UNCHANGED <<oaVars, dbVars, trVars, bootVars>>

SpecAuthOk == ServerInit /\ [][AuthOkNext]_vars

TLNext ==
  \/ TLRequest /\ UNCHANGED <<oaVars, dbVars, trVars, bootVars>>
  \/ Cleanup /\ UNCHANGED <<oaVars, dbVars, trVars, bootVars>>
  \/ Tick /\ UNCHANGED <<oaVars, dbVars, trVars, bootVars>>

SpecTL == ServerInit /\ [][TLNext]_vars

\* two registered users; the translation record is one that a translate
\* request of its owner created and that toggles may have changed
TwoUsers ==
  [i \in UserIds |->
     IF i = 1 THEN [exists |-> TRUE, email |-> "a@x", username |-> "n1",
                    passwordHash |-> Hash("pw1"), lastLoginAt |-> 0]
     ELSE IF i = 2 THEN [exists |-> TRUE, email |-> "b@x", username |-> "n2",
                         passwordHash |-> Hash("pw1"), lastLoginAt |-> 0]
     ELSE AbsentUser]

FavInit ==
  /\ RLInit
  /\ OAInit
  /\ Serving
  /\ users = TwoUsers
  /\ nextUserId = 3
  /\ reqs = [s \in ReqSlots |-> Free]
  /\ resp = NoResp
  /\ jwtSecretSet = TRUE
  /\ translations \in [TrIds -> [exists : {TRUE}, userId : {1, 2},
                                  isFavorite : BOOLEAN, tags : {<<>>}]
                                 \cup {AbsentTranslation}]
  /\ \A t \in TrIds : translations[t].exists <=> t = 1
  /\ nextTrId = 2
  /\ history = {HistoryEntry(translations[1].userId, 1, 0)}
  /\ api = [s \in ApiSlots |-> FreeApi]
  /\ upstreamCalls = 0
  /\ favLog = [t \in TrIds |-> IF translations[t].exists
                                 THEN <<translations[t].isFavorite>> ELSE <<>>]
  /\ seqToggles = [t \in TrIds |-> 0]
  /\ expectedFav = [t \in TrIds |-> translations[t].isFavorite]

FavNext ==
  \/ \E s \in ApiSlots, u \in {1, 2}, t \in TrIds :
       ToggleFind(s, u, t) /\ UNCHANGED <<oaVars, bootVars>>
  \/ \E s \in ApiSlots : ToggleSave(s) /\ UNCHANGED <<oaVars, bootVars>>
  \/ \E s \in ReqSlots :
       DeleteFind(s, 2, "pw1", TRUE) /\ UNCHANGED <<rlVars, oaVars, trVars, bootVars>>
  \/ \E s \in ReqSlots : DeleteUser(s) /\ UNCHANGED <<rlVars, oaVars, bootVars>>

SpecFav == FavInit /\ [][FavNext]_vars

\* reads of a stored translation through TranslationService.getTranslationById
\* and through the controller's getTranslation, as time passes
SvcNext ==
  \/ \E s \in ApiSlots, u \in {1, 2}, id \in IdInputs :
       SvcGetFind(s, u, id) /\ UNCHANGED <<oaVars, bootVars>>
  \/ \E s \in ApiSlots : SvcRecordHistory(s) /\ UNCHANGED <<oaVars, bootVars>>
  \/ \E s \in ApiSlots, u \in {1, 2}, id \in IdInputs :
       GetFind(s, u, id) /\ UNCHANGED <<oaVars, bootVars>>
  \/ \E s \in ApiSlots : GetUpsert(s) /\ UNCHANGED <<oaVars, bootVars>>
  \/ ClockTick /\ UNCHANGED <<rlRest, oaVars, dbVars, trVars, bootVars>>

SpecSvc == FavInit /\ [][SvcNext]_vars

\* calls of TranslationService.addTagsToTranslation on a stored translation
\* without tags
TagsNext ==
  \/ \E s \in ApiSlots, u \in {1, 2}, id \in IdInputs, newTags \in NewTagLists :
       AddTagsFind(s, u, id, newTags) /\ UNCHANGED <<oaVars, bootVars>>
  \/ \E s \in ApiSlots : AddTagsSave(s) /\ UNCHANGED <<oaVars, bootVars>>

SpecTags == FavInit /\ [][TagsNext]_vars

\* the two registered users and no translation yet
ApiInit ==
  /\ RLInit
  /\ OAInit
  /\ Serving
  /\ users = TwoUsers
  /\ nextUserId = 3
  /\ reqs = [s \in ReqSlots |-> Free]
  /\ resp = NoResp
  /\ jwtSecretSet = TRUE
  /\ TRInit

ApiBodies ==
  {[text |-> [length |-> 1, blank |-> FALSE], toneValid |-> TRUE],
   [text |-> [length |-> 1, blank |-> TRUE], toneValid |-> TRUE],
   [text |-> [length |-> 0, blank |-> TRUE], toneValid |-> TRUE]}

ApiNext ==
  \/ \E token \in Tokens, body \in ApiBodies :
       ApiArrive(1, token, "ip1", body) /\ UNCHANGED <<oaVars, bootVars>>
  \/ \E s \in ApiSlots : ApiAuthNext(s) /\ UNCHANGED <<oaVars, bootVars>>
  \/ \E s \in ApiSlots, res \in TranslateResults :
       ApiUpstream(s, res) /\ UNCHANGED <<oaVars, bootVars>>
  \/ \E s \in ApiSlots : ApiSaveTranslation(s) /\ UNCHANGED <<oaVars, bootVars>>
  \/ \E s \in ApiSlots : ApiSaveHistory(s) /\ UNCHANGED <<oaVars, bootVars>>
  \/ \E s \in ReqSlots :
       DeleteFind(s, 2, "pw1", TRUE) /\ UNCHANGED <<rlVars, oaVars, trVars, bootVars>>
  \/ \E s \in ReqSlots : DeleteUser(s) /\ UNCHANGED <<rlVars, oaVars, bootVars>>

SpecApi == ApiInit /\ [][ApiNext]_vars

\* the valid body of a translate request
ValidBody == [text |-> [length |-> 1, blank |-> FALSE], toneValid |-> TRUE]

\* a translate call that returns the text after one attempt
TextAtFirst == [kind |-> "text", attempts |-> 1, rateLimitText |-> FALSE,
                apiKeyText |-> FALSE]

\* the requests of the two registered users to the Translation records:
\* user 1 creates them, one translate request at a time; both users read,
\* delete and batch-delete any of them and toggle the first one
TrNext ==
  \/ ApiArrive(1, [kind |-> "valid", userId |-> 1], "ip1", ValidBody)
         /\ UNCHANGED <<oaVars, bootVars>>
  \/ \E s \in ApiSlots : ApiAuthNext(s) /\ UNCHANGED <<oaVars, bootVars>>
  \/ \E s \in ApiSlots : ApiUpstream(s, TextAtFirst) /\ UNCHANGED <<oaVars, bootVars>>
  \/ \E s \in ApiSlots : ApiSaveTranslation(s) /\ UNCHANGED <<oaVars, bootVars>>
  \/ \E s \in ApiSlots : ApiSaveHistory(s) /\ UNCHANGED <<oaVars, bootVars>>
  \/ \E s \in ApiSlots, u \in {1, 2}, id \in IdInputs :
       GetFind(s, u, id) /\ UNCHANGED <<oaVars, bootVars>>
  \/ \E s \in ApiSlots : GetUpsert(s) /\ UNCHANGED <<oaVars, bootVars>>
  \/ \E s \in ApiSlots, u \in {1, 2}, id \in {BadId, 1} :
       ToggleFind(s, u, id) /\ UNCHANGED <<oaVars, bootVars>>
  \/ \E s \in ApiSlots : ToggleSave(s) /\ UNCHANGED <<oaVars, bootVars>>
  \/ \E s \in ApiSlots, u \in {1, 2}, id \in IdInputs :
       DeleteFindTranslation(s, u, id) /\ UNCHANGED <<oaVars, bootVars>>
  \/ \E s \in ApiSlots : DeleteTranslationRecord(s) /\ UNCHANGED <<oaVars, bootVars>>
  \/ \E s \in ApiSlots : DeleteTranslationHistory(s) /\ UNCHANGED <<oaVars, bootVars>>
  \/ \E s \in ApiSlots, u \in {1, 2}, ids \in IdArrays :
       BatchFind(s, u, ids) /\ UNCHANGED <<oaVars, bootVars>>
  \/ \E s \in ApiSlots : BatchDeleteRecords(s) /\ UNCHANGED <<oaVars, bootVars>>
  \/ \E s \in ApiSlots : BatchDeleteHistory(s) /\ UNCHANGED <<oaVars, bootVars>>

SpecTr == ApiInit /\ [][TrNext]_vars

\* the start of the process, from any environment
BootStart ==
  /\ RLInit /\ OAInit /\ DBInit /\ TRInit
  /\ BootInit

BootNext ==
  \/ ValidateEnvVars /\ UNCHANGED <<rlVars, oaVars, dbVars, trVars>>
  \/ ValidateConfig /\ UNCHANGED <<rlVars, oaVars, dbVars, trVars>>
  \/ \E connected \in BOOLEAN :
       StartServer(connected) /\ UNCHANGED <<rlVars, oaVars, dbVars, trVars>>

SpecBoot == BootStart /\ [][BootNext]_vars



\* ------------------------------------------------------------------------
\* Properties of OpenAIService.translate
\* ------------------------------------------------------------------------
\* C3: one call of translate makes at most 3 upstream attempts, makes a
\* further attempt only after a failed one, and returns the text of the
\* first attempt that succeeds without attempting again.
C3_AtMostThreeAttempts ==
  /\ Len(oaLog) <= 3
  /\ \A i \in 1..(Len(oaLog) - 1) : oaLog[i].failed \/ Trim(oaLog[i].content) = <<>>
  /\ \A i \in 1..Len(oaLog) :
       (~oaLog[i].failed /\ Trim(oaLog[i].content) # <<>>) =>
         /\ i = Len(oaLog)
         /\ oaPc \in {"done", "idle"}
         /\ oaResult.kind = "text"
         /\ oaResult.value = Trim(oaLog[i].content)
  /\ oaResult.kind = "text" =>
       (oaLog # <<>> /\ ~oaLog[Len(oaLog)].failed /\ oaResult.value # <<>>)

C3_Witness ==
  /\ oaResult.kind = "text"
  /\ Len(oaLog) = 3
  /\ oaLog[1].failed
  /\ ~oaLog[2].failed

RateLimitWaits == <<1000, 2000, 4000>>
LinearWaits == <<1000, 2000>>

\* C4: the wait after failed attempt k is 1000, 2000, 4000 ms for k = 1, 2, 3
\* when the failure is a rate-limit error, and 1000, 2000 ms for k = 1, 2 for
\* any other failure that is retried.
C4_BackoffDelays ==
  \A k \in 1..Len(oaWaits) :
    LET o == oaLog[k]
        retried == k < Len(oaLog) \/ oaPc = "delay"
    IN /\ (o.failed /\ "rate_limit_exceeded" \in o.markers) =>
            (k <= 3 /\ oaWaits[k] = RateLimitWaits[k])
       /\ (retried /\ ~(o.failed /\ "rate_limit_exceeded" \in o.markers)) =>
            (k <= 2 /\ oaWaits[k] = LinearWaits[k])

C4_Witness ==
  /\ Len(oaLog) = 3
  /\ oaLog[1].failed /\ oaLog[1].markers = {}
  /\ ~oaLog[2].failed
  /\ oaLog[3].failed /\ "rate_limit_exceeded" \in oaLog[3].markers
  /\ oaWaits = <<1000, 2000, 4000>>

\* C17 as the claim states it: when the third attempt fails, translate fails
\* at once, whatever the kind of the failure: no delay follows the attempt
\* and the error thrown is 'Translation failed after 3 attempts: ...'.
C17_LastAttemptFailsAtOnce ==
  (Len(oaLog) = maxRetries /\ ~Succeeded(oaLog[maxRetries])) =>
    /\ oaPc \in {"done", "idle"}
    /\ oaWaits[maxRetries] = 0
    /\ oaResult.kind = "failed_after_attempts"

\* C18 as the claim states it: when translate fails because the upstream API
\* answered a rate-limit error on every attempt, the endpoint answers 429
\* 'Too many requests, please try again later', not 500.
C18_UpstreamRateLimit429 ==
  [][\A texts \in SUBSET MessageTexts :
       (/\ TranslateCatch(texts)
        /\ Len(oaLog) = maxRetries
        /\ \A i \in 1..maxRetries :
             oaLog[i].failed /\ "rate_limit_exceeded" \in oaLog[i].markers) =>
         resp' = [op |-> "translate", status |-> 429,
                  message |-> "Too many requests, please try again later"]]_vars

\* C19: an attempt that fails with insufficient_quota, invalid_api_key or
\* model_not_found ends the call at once with the error of that kind: no
\* delay and no further attempt follow, on whichever attempt it happens. (The
\* kind of a failure is the first test of the catch block its message meets:
\* rate_limit_exceeded, then insufficient_quota, invalid_api_key,
\* model_not_found.)
C19_SpecificErrorsEndCall ==
  \A k \in 1..Len(oaLog) :
    LET o == oaLog[k]
    IN (o.failed /\ "rate_limit_exceeded" \notin o.markers /\ o.markers # {}) =>
         /\ k = Len(oaLog)
         /\ oaPc \in {"done", "idle"}
         /\ oaWaits[k] = 0
         /\ oaResult.kind =
              IF "insufficient_quota" \in o.markers THEN "quota_exceeded"
              ELSE IF "invalid_api_key" \in o.markers THEN "invalid_api_key"
              ELSE "model_unavailable"
         /\ oaResult.cause = o.markers

\* the third attempt, after a failure without marker and an empty completion,
\* fails with model_not_found
C19_Witness ==
  /\ Len(oaLog) = 3
  /\ oaLog[1].failed /\ oaLog[1].markers = {}
  /\ ~oaLog[2].failed
  /\ oaLog[3].failed /\ oaLog[3].markers = {"model_not_found"}
  /\ oaResult.kind = "model_unavailable"
  /\ oaWaits = <<1000, 2000, 0>>

\* ------------------------------------------------------------------------
\* Properties of the User records
\* ------------------------------------------------------------------------
\* C5: no two User records share an email and no two share a username, under
\* any interleaving of register and updateProfile requests.
C5_UniqueEmailAndUsername ==
  \A i, j \in UserIds :
    (i # j /\ users[i].exists /\ users[j].exists) =>
      (users[i].email # users[j].email /\ users[i].username # users[j].username)

\* a save of register was refused by the indexes although its findOne had
\* found no conflict: the conflicting user was stored in between
C5_Witness ==
  /\ resp = [op |-> "register", status |-> 500, message |-> "Internal server error"]
  /\ \E i \in UserIds : users[i].exists

\* the login request was answered by the step that looked the user up
LoginAnswered(s, e, p) == LoginFind(s, e, p) /\ reqs'[s] = Free

\* C6 as claimed: login issues a token and updates lastLoginAt only when a
\* user with the given email exists and the password matches its hash; every
\* other login is answered 401 and changes no stored record.
C6_EveryOtherLogin401 ==
  [][/\ \A s \in ReqSlots, e \in EmailInputs, p \in Passwords \cup {NoVal} :
          /\ LoginAnswered(s, e, p) => (resp'.status = 401 /\ users' = users)
          /\ (LoginFind(s, e, p) /\ reqs'[s] # Free) =>
               /\ users' = users
               /\ users[reqs'[s].uid].exists
               /\ users[reqs'[s].uid].email = Lower(e)
               /\ users[reqs'[s].uid].passwordHash = Hash(p)
     /\ \A s \in ReqSlots :
          LoginSave(s) =>
            \/ /\ resp'.status = 200
               /\ users' = [users EXCEPT ![reqs[s].uid].lastLoginAt = now]
            \/ resp'.status = 401 /\ users' = users]_vars

\* C6, amended: login issues a token and updates lastLoginAt only when a user
\* with the given email exists and the password matches its hash; a login
\* with a malformed email or without password is answered 400, a login with
\* an unknown email or a wrong password is answered 401, a login whose user
\* is deleted before lastLoginAt is saved is answered 500, and none of these
\* changes a stored record.
C6_LoginCredentialCheck ==
  [][/\ \A s \in ReqSlots, e \in EmailInputs, p \in Passwords \cup {NoVal} :
          LET known == \E u \in UserIds :
                         /\ users[u].exists
                         /\ users[u].email = Lower(e)
                         /\ users[u].passwordHash = Hash(p)
              wellFormed == IsEmail(e) /\ p # NoVal
          IN /\ LoginAnswered(s, e, p) =>
                  /\ users' = users
                  /\ resp'.status = IF wellFormed THEN 401 ELSE 400
                  /\ wellFormed => ~known
             /\ (LoginFind(s, e, p) /\ reqs'[s] # Free) =>
                  /\ users' = users
                  /\ wellFormed
                  /\ users[reqs'[s].uid].exists
                  /\ users[reqs'[s].uid].email = Lower(e)
                  /\ users[reqs'[s].uid].passwordHash = Hash(p)
     /\ \A s \in ReqSlots :
          LoginSave(s) =>
            \/ /\ resp'.status = 200
               /\ users[reqs[s].uid].exists
               /\ users' = [users EXCEPT ![reqs[s].uid].lastLoginAt = now]
            \/ /\ resp'.status = 500
               /\ ~users[reqs[s].uid].exists
               /\ users' = users]_vars

C6_Witness ==
  /\ resp = [op |-> "login", status |-> 200, message |-> "Login successful"]
  /\ now > 0
  /\ \E u \in UserIds : users[u].exists /\ users[u].lastLoginAt = now

\* C12: a login with an email no user has and a login with the email of a
\* user and a password that does not match are answered with the same status
\* (401) and the same message.
C12_LoginFailuresAlike ==
  [][\A s \in ReqSlots, e1, e2 \in EmailInputs, p1, p2 \in Passwords :
       LET registered(e) == \E u \in UserIds :
                              users[u].exists /\ users[u].email = Lower(e)
           wrong(e, p) == \E u \in UserIds :
                            /\ users[u].exists /\ users[u].email = Lower(e)
                            /\ users[u].passwordHash # Hash(p)
           answer == [op |-> "login", status |-> 401,
                      message |-> "Invalid email or password"]
       IN (IsEmail(e1) /\ ~registered(e1) /\ wrong(e2, p2)) =>
            /\ LoginFind(s, e1, p1) => (resp' = answer /\ reqs' = reqs)
            /\ LoginFind(s, e2, p2) => (resp' = answer /\ reqs' = reqs)]_vars

C12_Witness ==
  /\ resp = [op |-> "login", status |-> 401,
             message |-> "Invalid email or password"]
  /\ \E u \in UserIds : users[u].exists
  /\ \E e \in EmailInputs :
       IsEmail(e) /\ \A u \in UserIds : users[u].email # Lower(e)

\* ------------------------------------------------------------------------
\* Properties of the favourite toggle
\* ------------------------------------------------------------------------
\* the last value of isFavorite stored for translation t, the one before it
\* and the one before that
LastFav(t, back) == favLog[t][Len(favLog[t]) - back]

\* C7 as the claim states it: after toggleFavorite has run twice on a
\* translation, one call after the other, isFavorite equals its value after
\* the first call.
C7_SecondToggleKeepsValue ==
  \A t \in TrIds :
    (seqToggles[t] = 2 /\ Len(favLog[t]) >= 2) => LastFav(t, 0) = LastFav(t, 1)

\* C7, amended: each toggleFavorite negates isFavorite, so after it has run
\* twice on a translation, one call after the other, isFavorite differs from
\* its value after the first call and equals its value before the first call.
C7_SecondToggleRestores ==
  \A t \in TrIds :
    seqToggles[t] = 2 =>
      /\ Len(favLog[t]) >= 3
      /\ LastFav(t, 0) # LastFav(t, 1)
      /\ LastFav(t, 0) = LastFav(t, 2)
      /\ translations[t].exists => translations[t].isFavorite = LastFav(t, 0)

C7_Witness ==
  \E t \in TrIds :
    /\ seqToggles[t] = 2
    /\ translations[t].exists
    /\ resp.op = "toggleFavorite" /\ resp.status = 200

\* ------------------------------------------------------------------------
\* Properties of the chain of POST /api/translation
\* ------------------------------------------------------------------------
\* C8: authMiddleware lets a request through to the next handler only when
\* it carries a token that verifies under the configured secret and the user
\* of the token exists when the middleware looks it up; every other request
\* is answered 401 (500 only when the secret is not configured) and takes no
\* further step; a request with the token of a deleted user is answered 401.
C8_AuthMiddleware ==
  /\ [](\A sec \in BOOLEAN, token \in Tokens :
          LET a == AuthCheck(sec, token, users)
          IN /\ (a = Proceed) <=>
                  (token.kind = "valid" /\ sec /\ users[token.userId].exists)
             /\ a # Proceed =>
                  /\ a.status \in {401, 500}
                  /\ sec => a.status = 401
                  /\ (a.status = 500) <=>
                       (~sec /\ token.kind \in {"invalid", "expired", "valid"}))
  /\ [][\A s \in ApiSlots, token \in Tokens, body \in ApiBodies :
          ApiArrive(s, token, "ip1", body) =>
            IF token.kind = "valid" /\ users[token.userId].exists
            THEN /\ api'[s].pc = "auth"
                 /\ api'[s].uid = token.userId
                 /\ resp' = resp
            ELSE /\ api' = api
                 /\ resp'.op = "translate"
                 /\ resp'.status = 401]_vars

C8_Witness ==
  /\ resp = [op |-> "translate", status |-> 401,
             message |-> "Token is valid but user no longer exists."]
  /\ \E i \in UserIds : i < nextUserId /\ ~users[i].exists
  /\ upstreamCalls > 0

\* the count of the caller's entry the translation limiter starts from
CountBefore(key) ==
  IF rateLimitStore[key] = NoEntry \/ rateLimitStore[key].resetTime < now
  THEN 0 ELSE rateLimitStore[key].count

\* C9: the chain of POST /api/translation runs auth, rate limit, validation,
\* controller in this order: a request auth rejects changes no rate-limit
\* entry and makes no upstream call; a request whose caller has used up the
\* budget is answered 429 whatever its body; a request answered 400 has been
\* counted against the caller's budget and makes no upstream call.
C9_PipelineOrder ==
  [][/\ \A s \in ApiSlots, token \in Tokens, body \in ApiBodies :
          (ApiArrive(s, token, "ip1", body) /\ api' = api) =>
            /\ resp'.status \in {401, 500}
            /\ rateLimitStore' = rateLimitStore
            /\ upstreamCalls' = upstreamCalls
     /\ \A s \in ApiSlots :
          ApiAuthNext(s) =>
            LET key == UserKey(api[s].uid)
            IN /\ CountBefore(key) >= TranslationMaxRequests =>
                    /\ api'[s] = FreeApi
                    /\ resp'.status = 429
                    /\ rateLimitStore'[key].count = CountBefore(key)
               /\ (api'[s] = FreeApi /\ resp'.status = 400) =>
                    /\ ~ValidateTranslation(api[s].body)
                         \/ ControllerCheck(api[s].body) # Proceed
                    /\ rateLimitStore'[key].count = CountBefore(key) + 1
               /\ api'[s] = FreeApi => upstreamCalls' = upstreamCalls
               /\ \A k \in Keys \ {key} : rateLimitStore'[k] = rateLimitStore[k]]_vars

C9_Witness ==
  /\ resp = [op |-> "translate", status |-> 400, message |-> "Validation failed"]
  /\ \A s \in ApiSlots : api[s] = FreeApi
  /\ upstreamCalls = 0
  /\ \E k \in Users : rateLimitStore[k] # NoEntry
                      /\ rateLimitStore[k].count = TranslationMaxRequests

\* ------------------------------------------------------------------------
\* Properties of deleteAccount
\* ------------------------------------------------------------------------
\* C21 as the claim states it: once deleteAccount has answered success for a
\* user (the ids of users are never given again), no User, Translation or
\* TranslationHistory record of that user exists, in that state and in every
\* later one, whatever requests of the user were in flight; a deleteAccount
\* without the confirmation text or with a wrong password deletes nothing.
C21_DeletedUserLeavesNothing ==
  /\ [](\A u \in UserIds :
          (u < nextUserId /\ ~users[u].exists) =>
            /\ \A t \in TrIds : ~(translations[t].exists /\ translations[t].userId = u)
            /\ \A h \in history : h.userId # u)
  /\ [][\A s \in ReqSlots, u \in UserIds, p \in Passwords, c \in BOOLEAN :
          (DeleteFind(s, u, p, c) /\ (~c \/ ~Compare(p, users[u].passwordHash))) =>
            UNCHANGED <<users, translations, history, reqs>>]_vars

\* ------------------------------------------------------------------------
\* Properties of the requests to one Translation record
\* ------------------------------------------------------------------------
NotFound(op) == [op |-> op, status |-> 404, message |-> "Translation record not found"]

C22_AccessRecorded ==
  [][\A s \in ApiSlots :
       SvcRecordHistory(s) =>
         \E h \in HistoryOf(history', api[s].uid, api[s].tid) : h.accessedAt = now]_vars

\* C23 as the claim states it: toggles are never lost: when the n
\* toggleFavorite requests made on a translation so far have all completed
\* with success, isFavorite is its initial value for an even n and the
\* negation for an odd n, however their findOne and save steps interleave.
C23_TogglesNeverLost ==
  \A t \in TrIds :
    (/\ translations[t].exists
     /\ \A s \in ApiSlots : ~(api[s].op = "toggleFavorite" /\ api[s].tid = t)) =>
      translations[t].isFavorite = expectedFav[t]

\* C24 as the claim states it: translate stores a Translation only after the
\* upstream call returned a text; a translate request answered with an error
\* leaves no Translation it stored behind; a translate request answered
\* with success implies that its Translation and its TranslationHistory
\* entry exist.
C24_TranslateAllOrNothing ==
  [][/\ \A t \in TrIds :
          (~translations[t].exists /\ translations'[t].exists) =>
            \E s \in ApiSlots :
              /\ api[s].op = "translate" /\ api[s].pc = "saveTranslation"
              /\ upstreamCalls > 0
     /\ \A s \in ApiSlots :
          (api[s].op = "translate" /\ api'[s] = FreeApi) =>
            IF resp'.status = 200
            THEN /\ translations'[api[s].tid].exists
                 /\ HistoryOf(history', api[s].uid, api[s].tid) # {}
            ELSE api[s].tid = 0 \/ ~translations'[api[s].tid].exists]_vars

\* C25 as the claim states it: deleteTranslations deletes every listed record
\* when all listed ids exist and belong to the caller, and answers 400 and
\* deletes nothing otherwise; it never deletes a Translation of another user
\* (for lists of well-formed ids; a malformed id is answered 500).
C25_BatchAllOrNothing ==
  [][/\ \A s \in ApiSlots, u \in {1, 2}, ids \in IdArrays :
          (BatchFind(s, u, ids) /\ BadId \notin Range(ids)) =>
            IF /\ Len(ids) > 0
               /\ \A i \in DOMAIN ids : FindOneOwned(translations, u, ids[i])
            THEN /\ api'[s].op = "deleteTranslations"
                 /\ api'[s].ids = Range(ids)
            ELSE /\ resp' = [op |-> "deleteTranslations", status |-> 400,
                             message |-> resp'.message]
                 /\ UNCHANGED <<translations, history, api>>
     /\ \A s \in ApiSlots :
          BatchDeleteRecords(s) =>
            /\ \A t \in api[s].ids : ~translations'[t].exists
            /\ \A t \in TrIds :
                 translations'[t] # translations[t] =>
                   (t \in api[s].ids /\ translations[t].userId = api[s].uid)]_vars

\* C26 as the claim states it: starting from a tag list without duplicates,
\* after any sequence of successful addTagsToTranslation calls, whatever
\* their newTags lists, the stored tag list of a translation contains no
\* tag twice.
C26_TagsUnique ==
  \A t \in TrIds :
    \A i, j \in DOMAIN translations[t].tags :
      i # j => translations[t].tags[i] # translations[t].tags[j]

\* C20 as the claim states it: in every reachable state each
\* TranslationHistory record refers to a Translation that exists.
C20_HistoryRefersToTranslation ==
  \A h \in history : translations[h.translationId].exists

\* ------------------------------------------------------------------------
\* Properties of the startup
\* ------------------------------------------------------------------------
\* C13 as the claim states it: the application serves requests only when the
\* configuration passes every documented startup check: the three required
\* variables are present, the OpenAI key and the MongoDB URI have the right
\* format, the port is in range and the JWT secret has the required length.
C13_StartupValidation ==
  bootPc = "serving" =>
    /\ env.mongoUri = "ok"
    /\ env.openaiKey = "ok"
    /\ env.jwtSecret = "ok"
    /\ ~env.port.nan /\ env.port.value >= 1 /\ env.port.value <= 65535

\* ------------------------------------------------------------------------
\* Properties of the rate limiter
\* ------------------------------------------------------------------------
WindowLive(k) ==
  rateLimitStore[k] # NoEntry /\ rateLimitStore[k].resetTime >= now

\* C14 as the claim states it: the limiters are independent: a request
\* handled by one limiter never changes the count or the resetTime another
\* limiter uses for the same client key (generalRateLimit and authRateLimit
\* are both keyed by the address).
C14_LimitersIndependent ==
  [][\A l \in Limiters, req \in Requests :
       HandleRequest(l, req) =>
         \A m \in Limiters \ {l} :
           LET k == keyGenerator(l, req)
           IN LimiterEntry(rateLimitStore', m, k) = LimiterEntry(rateLimitStore, m, k)]_vars

\* C15 as the claim states it: authRateLimit (skipSuccessfulRequests) never
\* answers 429 to clients whose requests all end with a status below 400,
\* however the requests and their responses interleave.
C15_SuccessfulNever429 ==
  rlRes.limiter = "authRateLimit" => rlRes.status # 429

\* the requests authRateLimit passed on in the current window of key k have
\* all completed
AllCompleted(k) ==
  \A s \in Slots :
    ~(pending[s] # Idle /\ pending[s].key = k /\ Captured(rateLimitStore, pending[s]))

C1_AtMostMaxPerWindow ==
  [][\A l \in Limiters, req \in Requests :
       (HandleRequest(l, req) /\ ~skipSuccessfulRequests(l)) =>
         LET k == keyGenerator(l, req)
         IN /\ passed'[l][k] <= maxRequests(l)
            /\ (WindowLive(k) /\ passed[l][k] = maxRequests(l)) =>
                  (rlRes'.status = 429 /\ passed'[l][k] = passed[l][k])]_vars

C1_Witness ==
  \E l \in Limiters :
    /\ ~skipSuccessfulRequests(l)
    /\ rlRes.limiter = l
    /\ rlRes.status = 429
    /\ WindowLive(keyGenerator(l, rlRes.req))
    /\ passed[l][keyGenerator(l, rlRes.req)] = maxRequests(l)

\* C2: a request that arrives strictly after the resetTime of its key's entry
\* replaces the entry by a window with count 0 and resetTime = now + windowMs
\* before the limit is checked, so it is passed on whatever the old count was.
C2_ResetAfterWindow ==
  [][\A l \in Limiters, req \in Requests :
       LET k == keyGenerator(l, req)
       IN (HandleRequest(l, req) /\ rateLimitStore[k] # NoEntry
             /\ rateLimitStore[k].resetTime < now) =>
            /\ rlRes'.status = 0
            /\ rateLimitStore'[k] = [count |-> 0 + 1, resetTime |-> now + windowMs(l)]]_vars

C2_Witness ==
  /\ rlRes.limiter \in Limiters
  /\ rlRes.replaced >= maxRequests(rlRes.limiter)
  /\ rlRes.status = 0

\* C10: the translation limiter counts a request with req.user against the
\* entry of the user id, whatever the address, and a request without req.user
\* against the entry of the address; a user is answered 429 only when the
\* requests passed on for that same user fill the window.
C10_KeyedByUser ==
  [][\A req \in Requests :
       HandleRequest("rateLimit", req) =>
         LET own == IF req.user # NoUser THEN req.user ELSE req.ip
         IN /\ \A k \in Keys \ {own} : rateLimitStore'[k] = rateLimitStore[k]
            /\ rlRes'.status = 0 => rateLimitStore'[own].count >= 1
            /\ rlRes'.status = 429 =>
                  passed["rateLimit"][own] = maxRequests("rateLimit")]_vars

C10_Witness ==
  /\ rlRes.limiter = "rateLimit"
  /\ rlRes.req = [user |-> "u2", ip |-> "ip1"]
  /\ rlRes.status = 0
  /\ WindowLive("u1")
  /\ rateLimitStore["u1"].count = maxRequests("rateLimit")
  /\ rateLimitStore["u2"].count = 1
  /\ rateLimitStore["ip1"] = NoEntry

====
